---- MODULE Spec2Model ----
(***************************************************************************)
(* Model of scripts/test-droid-session-apikey-reuse.py: a driver for a     *)
(* line-delimited JSON-RPC protocol spoken over the stdio of a child       *)
(* process (read_line, wait_for_response, capture_assistant_text,          *)
(* stop_proc) and the two-turn scenario of main().                         *)
(*                                                                         *)
(* Python strings are sequences of one-character strings.  Python values   *)
(* that may be None carry a tag t.  A line of the child's stdout is a      *)
(* record: "form" says what json.loads makes of it, the other fields are   *)
(* what msg.get(...) finds in the decoded object.                          *)
(***************************************************************************)
EXTENDS Integers, Sequences, FiniteSets, TLC

\* ------------------------------------------------------------- bounds
\* lines the child writes during one harness call (SpecIO)
MaxWrites == 2
\* timeout_s of the harness call under test, in clock ticks (SpecIO)
MaxTimeout == 2
\* read_line results one harness call of main consumes (SpecMain)
MaxReads == 2
\* calls of stop_proc on one handle (SpecStop)
MaxStopCalls == 2
\* read_line results in one script (SpecScript)
MaxScript == 4

\* ------------------------------------------------------ Python values
PyNone == [t |-> "None", s |-> <<>>]

PyStr(s) == [t |-> "str", s |-> s]

\* bool(v) of a value that is None or a string
Truthy(v) == v.t = "str" /\ v.s # <<>>

\* str(v or '')
StrOrEmpty(v) == IF Truthy(v) THEN v.s ELSE <<>>

Whitespace == {" ", "\n", "\t"}

RECURSIVE LStrip(_)
LStrip(s) == IF s # <<>> /\ Head(s) \in Whitespace THEN LStrip(Tail(s)) ELSE s

RECURSIVE RStrip(_)
RStrip(s) ==
  IF s # <<>> /\ s[Len(s)] \in Whitespace THEN RStrip(SubSeq(s, 1, Len(s) - 1)) ELSE s

\* str.strip()
Strip(s) == RStrip(LStrip(s))

\* ''.join(out)
RECURSIVE Join(_)
Join(out) == IF out = <<>> THEN <<>> ELSE Head(out) \o Join(Tail(out))

Terminal == {".", "!", "?"}

\* s.endswith(('.', '!', '?'))
EndsWithTerminal(s) == s # <<>> /\ s[Len(s)] \in Terminal

\* '\n' in s
HasNewline(s) == \E i \in 1..Len(s) : s[i] = "\n"

\* ------------------------------------------------------ error / result
\* msg.get('error'): None, a dict (possibly empty) or another truthy value
ErrNone == [t |-> "None", empty |-> TRUE, message |-> PyNone]

ErrDict(empty, message) == [t |-> "dict", empty |-> empty, message |-> message]

ErrOther == [t |-> "str", empty |-> FALSE, message |-> PyNone]

\* bool(msg.get('error'))
ErrTruthy(e) == (e.t = "dict" /\ ~e.empty) \/ e.t = "str"

\* msg.get('result'): None, a dict or another truthy value
ResNone == [t |-> "None", sessionId |-> PyNone]

ResDict(sid) == [t |-> "dict", sessionId |-> sid]

ResOther == [t |-> "str", sessionId |-> PyNone]

\* --------------------------------------------------------------- lines
Line(form, type, id, error, result, method, params, ntype, delta) ==
  [form |-> form, type |-> type, id |-> id, error |-> error, result |-> result,
   method |-> method, params |-> params, ntype |-> ntype, delta |-> delta]

Blank(form) ==
  Line(form, "None", "None", ErrNone, ResNone, "None", "None", "None", PyNone)

\* text that is not JSON
NonJson == Blank("nonjson")

\* the head of a JSON object cut before its end
Truncated == Blank("truncated")

\* JSON that is not an object (a list, a number, null)
NonObject == Blank("nonobject")

\* a JSON object without a 'type' key
NoKind == Blank("object")

Response(id, error, result) ==
  Line("object", "response", id, error, result, "None", "None", "None", PyNone)

Notification(method, params, ntype, delta) ==
  Line("object", "notification", "None", ErrNone, ResNone, method, params, ntype, delta)

SessionMethod == "droid.session_notification"

TextDelta(s) == Notification(SessionMethod, "dict", "assistant_text_delta", PyStr(s))

\* json.loads(line) raises for text that is not JSON
Decodes(line) == line.form \in {"nonobject", "object"}

\* msg.get exists only on a dict
HasGet(line) == line.form = "object"

\* ------------------------------------ read_line results (reads)
\* what one call of read_line hands to the loop: a line or None, and what
\* p.poll() says right after it
Read(got, line, exited) == [got |-> got, line |-> line, exited |-> exited]

NoLine(exited) == Read(FALSE, NonJson, exited)

Got(line) == Read(TRUE, line, FALSE)

\* ------------------------------------------- the loop bodies, per line
RespMatchNoId(r, target) ==
  IF ~r.got THEN "continue"
  ELSE IF ~Decodes(r.line) THEN "continue"
  ELSE IF ~HasGet(r.line) THEN "AttributeError"
  ELSE IF r.line.type = "response" THEN "return"
  ELSE "continue"

ResponseStepNoNullId(r, target) ==
  IF ~r.got THEN "continue"
  ELSE IF ~Decodes(r.line) THEN "continue"
  ELSE IF ~HasGet(r.line) THEN "AttributeError"
  ELSE IF r.line.type = "response" /\ r.line.id = target THEN "return"
  ELSE "continue"

\* wait_for_response, the body of its loop for one result of read_line:
\* "continue", "return" (the line is the message returned) or the exception
ResponseStep(r, target) ==
  IF ~r.got THEN "continue"
  ELSE IF ~Decodes(r.line) THEN "continue"
  ELSE IF ~HasGet(r.line) THEN "AttributeError"
  ELSE IF r.line.type = "response" /\ r.line.id = target THEN "return"
  ELSE IF r.line.type = "response" /\ ErrTruthy(r.line.error) /\ r.line.id = "None"
       THEN "return"
  ELSE "continue"

LooksFinishedNoStrip(out) == EndsWithTerminal(Join(out)) \/ HasNewline(Join(out))

LooksFinishedNewlineOnly(out) == HasNewline(Join(out))

\* the completion test made after each appended fragment
LooksFinished(out) == EndsWithTerminal(Strip(Join(out))) \/ HasNewline(Join(out))

CaptureBodyDropsFirst(out, r) ==
  IF ~r.got THEN [next |-> IF r.exited THEN "break" ELSE "continue", out |-> out]
  ELSE IF ~Decodes(r.line) THEN [next |-> "continue", out |-> out]
  ELSE IF ~HasGet(r.line) THEN [next |-> "AttributeError", out |-> out]
  ELSE IF r.line.type # "notification" THEN [next |-> "continue", out |-> out]
  ELSE IF r.line.method # SessionMethod THEN [next |-> "continue", out |-> out]
  ELSE IF r.line.params = "list" THEN [next |-> "AttributeError", out |-> out]
  ELSE IF r.line.params = "dict" /\ r.line.ntype = "assistant_text_delta"
       THEN LET o == <<StrOrEmpty(r.line.delta)>>
            IN  [next |-> IF LooksFinished(o) THEN "return" ELSE "continue", out |-> o]
  ELSE [next |-> "continue", out |-> out]

\* capture_assistant_text, the body of its loop for one result of read_line:
\* what the loop does next and the fragment list after it
CaptureBody(out, r) ==
  IF ~r.got THEN [next |-> IF r.exited THEN "break" ELSE "continue", out |-> out]
  ELSE IF ~Decodes(r.line) THEN [next |-> "continue", out |-> out]
  ELSE IF ~HasGet(r.line) THEN [next |-> "AttributeError", out |-> out]
  ELSE IF r.line.type # "notification" THEN [next |-> "continue", out |-> out]
  ELSE IF r.line.method # SessionMethod THEN [next |-> "continue", out |-> out]
  ELSE IF r.line.params = "list" THEN [next |-> "AttributeError", out |-> out]
  ELSE IF r.line.params = "dict" /\ r.line.ntype = "assistant_text_delta"
       THEN LET o == Append(out, StrOrEmpty(r.line.delta))
            IN  [next |-> IF LooksFinished(o) THEN "return" ELSE "continue", out |-> o]
  ELSE [next |-> "continue", out |-> out]

\* ------------------------------------------------ results of a call
\* kind: "return" or "raise"; why: what ended the call
Result(kind, exc, msg, text, why) ==
  [kind |-> kind, exc |-> exc, msg |-> msg, text |-> text, why |-> why]

NoResult == Result("none", "none", NonJson, <<>>, "none")

\* return msg, lines 63 and 66
Returned(msg) == Result("return", "none", msg, <<>>, "match")

\* return ''.join(out) from inside the loop, line 92
ReturnedText(text) == Result("return", "none", NonJson, text, "complete")

\* an exception leaving the call
Raised(exc) == Result("raise", exc, NonJson, <<>>, "error")

\* the loop deadline passed: wait_for_response raises, line 67
WaitExpired == Result("raise", "TimeoutError", NonJson, <<>>, "timeout")

CaptureExpiredRaises(out, why) == Result("raise", "TimeoutError", NonJson, <<>>, why)

\* the loop ended by its deadline or by the break on process exit:
\* capture_assistant_text returns what it has, line 93
CaptureExpired(out, why) == Result("return", "none", NonJson, Join(out), why)

\* =====================================================================
\* State
\* =====================================================================
VARIABLES
  \* ---- one harness call running against the child's stdout
  fn,        \* the function running: "wait_for_response", "capture_assistant_text"
  target,    \* target_id
  timeout,   \* timeout_s, in ticks
  fpc,       \* where the call is: "idle", "loop", "select", "readline", "done"
  now,       \* time.time(), in ticks
  start,     \* start, line 53 / 71
  selStart,  \* when the running read_line was entered
  pipe,      \* complete lines in the OS pipe of p.stdout
  buf,       \* complete lines read ahead into the buffer of the p.stdout object
  partialAt, \* where bytes without a newline sit: "none", "pipe", "buf"
  writes,    \* writes of the child so far
  alive,     \* the child has not exited (p.poll() is None)
  out,       \* out, line 72
  ret,       \* how the call ended
  seen,      \* history: the lines read_line handed to capture_assistant_text
  rl,        \* history: how the last read_line ended
  stalled,   \* history: a readline() of this call blocked on a partial line
  \* ---- harness calls run over a given sequence of read_line results
  script,    \* the results read_line hands over, in order
  pos,       \* how many of them have been consumed
  mark,      \* history: pos when capture_assistant_text was entered
  \* ---- the process handles p1, p2 and stop_proc
  started,     \* [p]: start_droid_exec returned the handle
  stdinClosed, \* [p]: p.stdin is closed
  sent,        \* [p]: the signals sent to the child
  calls,       \* [p]: calls of stop_proc on the handle
  spc,         \* where stop_proc is: "idle", "close", "terminate", "wait", "kill"
  sp,          \* the handle stop_proc runs on
  waitStart,   \* when p.wait(timeout=3) was entered
  pre,         \* history: the handle as it was when stop_proc was entered
  \* ---- main
  mpc,       \* where main is
  exc,       \* the exception unwinding main, or "none"
  rc,        \* main's return value, -1 while it runs
  resp,      \* r1 / rload: the response the last wait_for_response returned
  sid1,      \* sid1
  a1, a2,    \* a1, a2
  load_ok,   \* load_ok
  load_err,  \* load_err
  pending    \* history: ids of the requests written to the child main talks
             \* to for which no response carrying the id has been read

scriptVars == <<script, pos, mark>>

ioVars == <<fn, target, timeout, fpc, start, selStart, pipe, buf, partialAt,
            writes, out, ret, seen, rl, stalled, scriptVars>>

stopVars == <<started, stdinClosed, sent, calls, spc, sp, waitStart, pre>>

mainVars == <<mpc, exc, rc, resp, sid1, a1, a2, load_ok, load_err, pending>>

vars == <<ioVars, now, alive, stopVars, mainVars>>

Procs == {1, 2}

\* the clock stops here
MaxNow == 2 * MaxTimeout + 1

RlNone == [none |-> FALSE, unread |-> FALSE]

\* =====================================================================
\* SpecIO: one call of wait_for_response or capture_assistant_text, with
\* read_line, the clock and a child that writes when it likes
\* =====================================================================
Ids == {"1", "2"}

WaitLines ==
  { NonJson, NonObject, NoKind,
    Response("1", ErrNone, ResNone),
    Response("2", ErrNone, ResNone),
    Response("None", ErrDict(FALSE, PyStr(<<"e">>)), ResNone),
    Response("None", ErrNone, ResNone),
    [TextDelta(<<"a">>) EXCEPT !.id = "1"] }

CaptureLines ==
  { NonJson, NonObject,
    Response("1", ErrNone, ResNone),
    TextDelta(<<"a">>), TextDelta(<<".">>),
    Notification(SessionMethod, "dict", "assistant_text_delta", PyNone),
    Notification("other", "dict", "assistant_text_delta", PyStr(<<"b">>)),
    Notification(SessionMethod, "dict", "other", PyStr(<<"c">>)),
    Notification(SessionMethod, "None", "None", PyNone) }

ChildLines == IF fn = "wait_for_response" THEN WaitLines ELSE CaptureLines

\* stop_proc is not running and has not run
StopIdle ==
  /\ stdinClosed = [p \in Procs |-> FALSE]
  /\ sent = [p \in Procs |-> {}]
  /\ calls = [p \in Procs |-> 0]
  /\ spc = "idle" /\ sp = 1 /\ waitStart = 0
  /\ pre = [alive |-> FALSE, stdinClosed |-> FALSE, sent |-> {}]

\* main is not running
MainIdle ==
  /\ mpc = <<0, "none">> /\ exc = "none" /\ rc = -1
  /\ resp = NonJson
  /\ sid1 = <<>> /\ a1 = <<>> /\ a2 = <<>>
  /\ load_ok = FALSE /\ load_err = <<>>
  /\ pending = {}

\* no harness call is running step by step
IoIdle ==
  /\ fn = "none" /\ target = "None" /\ timeout = 0
  /\ fpc = "idle" /\ start = 0 /\ selStart = 0
  /\ pipe = <<>> /\ buf = <<>> /\ partialAt = "none" /\ writes = 0
  /\ out = <<>> /\ ret = NoResult /\ seen = <<>> /\ rl = RlNone /\ stalled = FALSE
  /\ script = <<>> /\ pos = 0 /\ mark = 0

InitIO ==
  /\ fn \in {"wait_for_response", "capture_assistant_text"}
  /\ target \in (IF fn = "wait_for_response" THEN Ids ELSE {"None"})
  /\ timeout \in 1..MaxTimeout
  /\ fpc = "loop"
  /\ now = 0 /\ start = 0 /\ selStart = 0
  /\ pipe = <<>> /\ buf = <<>> /\ partialAt = "none"
  /\ writes = 0
  /\ alive = [p \in Procs |-> p = 1]
  /\ out = <<>>
  /\ ret = NoResult
  /\ seen = <<>>
  /\ rl = RlNone
  /\ stalled = FALSE
  /\ script = <<>> /\ pos = 0 /\ mark = 0
  /\ started = [p \in Procs |-> p = 1]
  /\ StopIdle
  /\ MainIdle

\* ---- the child
\* the child writes one complete line (ending a partial line if one is open)
ChildWrite(l) ==
  /\ UNCHANGED <<stopVars, mainVars, scriptVars>>
  /\ fpc \in {"loop", "select", "readline"}
  /\ alive[1] /\ writes < MaxWrites
  /\ pipe' = Append(pipe, l)
  /\ partialAt' = "none"
  /\ writes' = writes + 1
  /\ UNCHANGED <<fn, target, timeout, fpc, now, start, selStart, buf, alive, out,
                 ret, seen, rl, stalled>>

\* the child writes bytes without a newline
ChildWritePartial ==
  /\ UNCHANGED <<stopVars, mainVars, scriptVars>>
  /\ fpc \in {"loop", "select", "readline"}
  /\ alive[1] /\ writes < MaxWrites /\ partialAt = "none"
  /\ partialAt' = "pipe"
  /\ writes' = writes + 1
  /\ UNCHANGED <<fn, target, timeout, fpc, now, start, selStart, pipe, buf, alive,
                 out, ret, seen, rl, stalled>>

\* the child exits; its end of the pipe closes
ChildExit ==
  /\ UNCHANGED <<stopVars, mainVars, scriptVars>>
  /\ fpc \in {"loop", "select", "readline"}
  /\ alive[1]
  /\ alive' = [alive EXCEPT ![1] = FALSE]
  /\ UNCHANGED <<fn, target, timeout, fpc, now, start, selStart, pipe, buf,
                 partialAt, writes, out, ret, seen, rl, stalled>>

\* ---- the loop body applied to one result r of read_line
Body(r) ==
  /\ seen' = IF fn = "capture_assistant_text" /\ r.got THEN Append(seen, r.line)
             ELSE seen
  /\ IF fn = "wait_for_response"
     THEN LET s == ResponseStep(r, target)
          IN  /\ out' = out
              /\ fpc' = IF s = "continue" THEN "loop" ELSE "done"
              /\ ret' = CASE s = "continue" -> ret
                          [] s = "return" -> Returned(r.line)
                          [] OTHER -> Raised(s)
     ELSE LET b == CaptureBody(out, r)
          IN  /\ out' = b.out
              /\ fpc' = IF b.next = "continue" THEN "loop" ELSE "done"
              /\ ret' = CASE b.next = "continue" -> ret
                          [] b.next = "return" -> ReturnedText(Join(b.out))
                          [] b.next = "break" -> CaptureExpired(b.out, "exit")
                          [] OTHER -> Raised(b.next)

\* ---- read_line
\* select() reports p.stdout readable: bytes in the OS pipe, or end of file
Readable == pipe # <<>> \/ partialAt = "pipe" \/ ~alive[1]

\* the loop test, then the entry of read_line up to select()
LoopHead ==
  /\ UNCHANGED <<stopVars, mainVars, scriptVars>>
  /\ fpc = "loop"
  /\ IF now - start < timeout
     THEN IF alive[1]
          THEN /\ fpc' = "select"
               /\ selStart' = now
               /\ UNCHANGED <<now, out, ret, seen, rl>>
          ELSE \* p.poll() is not None: read_line returns None at once; a
               \* wait_for_response loop spins until the clock moves
               /\ rl' = [none |-> TRUE, unread |-> pipe # <<>> \/ buf # <<>>]
               /\ selStart' = now
               /\ Body(NoLine(TRUE))
               /\ now' = IF fn = "wait_for_response" THEN now + 1 ELSE now
     ELSE /\ fpc' = "done"
          /\ ret' = IF fn = "wait_for_response" THEN WaitExpired
                    ELSE CaptureExpired(out, "timeout")
          /\ UNCHANGED <<now, selStart, out, seen, rl>>
  /\ UNCHANGED <<fn, target, timeout, start, pipe, buf, partialAt, writes, alive,
                 stalled>>

\* select() timed out: read_line returns None
SelectTimeout ==
  /\ UNCHANGED <<stopVars, mainVars, scriptVars>>
  /\ fpc = "select" /\ ~Readable /\ now - selStart >= timeout
  /\ rl' = [none |-> TRUE, unread |-> pipe # <<>> \/ buf # <<>>]
  /\ Body(NoLine(FALSE))
  /\ UNCHANGED <<fn, target, timeout, now, start, selStart, pipe, buf, partialAt,
                 writes, alive, stalled>>

\* time passes while select() waits
SelectTick ==
  /\ UNCHANGED <<stopVars, mainVars, scriptVars>>
  /\ fpc = "select" /\ ~Readable /\ now - selStart < timeout
  /\ now' = now + 1
  /\ UNCHANGED <<fn, target, timeout, fpc, start, selStart, pipe, buf, partialAt,
                 writes, alive, out, ret, seen, rl, stalled>>

\* select() said readable and readline() finds a complete line: in the
\* buffer of the stream object if one is there, else in the chunk it reads
\* from the pipe (the chunk takes all that the pipe holds)
ReadlineLine ==
  /\ UNCHANGED <<stopVars, mainVars, scriptVars>>
  /\ fpc \in {"select", "readline"}
  /\ fpc = "select" => Readable
  /\ buf # <<>> \/ pipe # <<>>
  /\ LET fromBuf == buf # <<>>
         line == IF fromBuf THEN Head(buf) ELSE Head(pipe)
     IN  /\ buf' = IF fromBuf THEN Tail(buf) ELSE Tail(pipe)
         /\ pipe' = IF fromBuf THEN pipe ELSE <<>>
         /\ partialAt' = IF ~fromBuf /\ partialAt = "pipe" THEN "buf" ELSE partialAt
         /\ rl' = [none |-> FALSE, unread |-> FALSE]
         /\ Body(Got(line))
  /\ UNCHANGED <<fn, target, timeout, now, start, selStart, writes, alive, stalled>>

\* readline() at end of file: the bytes of a partial line if there are some,
\* else '' and read_line returns None
ReadlineEof ==
  /\ UNCHANGED <<stopVars, mainVars, scriptVars>>
  /\ fpc \in {"select", "readline"}
  /\ buf = <<>> /\ pipe = <<>> /\ ~alive[1]
  /\ partialAt' = "none"
  /\ IF partialAt # "none"
     THEN /\ rl' = [none |-> FALSE, unread |-> FALSE]
          /\ Body(Got(Truncated))
     ELSE /\ rl' = [none |-> TRUE, unread |-> FALSE]
          /\ Body(NoLine(TRUE))
  /\ UNCHANGED <<fn, target, timeout, now, start, selStart, pipe, buf, writes,
                 alive, stalled>>

\* select() said readable but the pipe holds only bytes without a newline:
\* readline() reads them and blocks until the newline or end of file
ReadlineBlocks ==
  /\ UNCHANGED <<stopVars, mainVars, scriptVars>>
  /\ fpc = "select" /\ alive[1]
  /\ buf = <<>> /\ pipe = <<>> /\ partialAt = "pipe"
  /\ fpc' = "readline"
  /\ partialAt' = "buf"
  /\ stalled' = TRUE
  /\ UNCHANGED <<fn, target, timeout, now, start, selStart, pipe, buf, writes,
                 alive, out, ret, seen, rl>>

\* time passes while readline() is blocked
ReadlineTick ==
  /\ UNCHANGED <<stopVars, mainVars, scriptVars>>
  /\ fpc = "readline" /\ alive[1] /\ pipe = <<>> /\ now < MaxNow
  /\ now' = now + 1
  /\ UNCHANGED <<fn, target, timeout, fpc, start, selStart, pipe, buf, partialAt,
                 writes, alive, out, ret, seen, rl, stalled>>

NextIO ==
  \/ \E l \in ChildLines : ChildWrite(l)
  \/ ChildWritePartial
  \/ ChildExit
  \/ LoopHead
  \/ SelectTimeout
  \/ SelectTick
  \/ ReadlineLine
  \/ ReadlineEof
  \/ ReadlineBlocks
  \/ ReadlineTick

SpecIO == InitIO /\ [][NextIO]_vars

\* ---------------------------------------------------------------------
\* Properties of one harness call (SpecIO)
\* ---------------------------------------------------------------------
WaitDone == fn = "wait_for_response" /\ fpc = "done"

CaptureDone == fn = "capture_assistant_text" /\ fpc = "done"

\* C1: a message returned by wait_for_response is a response whose id is
\* target_id, or a response with id null that carries an error; it is never
\* a response for another id, and never a notification.
C1_ReturnsOnlyTarget ==
  (WaitDone /\ ret.kind = "return") =>
    /\ ret.msg.type = "response"
    /\ \/ ret.msg.id = target
       \/ ret.msg.id = "None" /\ ErrTruthy(ret.msg.error)

\* the matching response was returned after another line had been read and
\* skipped
C1_Witness ==
  /\ WaitDone /\ ret.kind = "return" /\ ret.msg.id = target
  /\ writes = 2 /\ pipe = <<>> /\ buf = <<>> /\ partialAt = "none"

\* C2: wait_for_response and capture_assistant_text end no later than
\* timeout_s after they were entered, whatever arrives and whenever (stated
\* for the calls in which no readline() blocked on a partial line and no
\* AttributeError ended the call, so that a violation shows the restart of
\* the allowance alone).
C2_AbsoluteDeadline ==
  (fpc = "done" /\ ~stalled /\ ret.exc # "AttributeError") => now - start <= timeout

\* the text-delta notifications among the lines read, and their fragments
IsTextDelta(l) ==
  /\ l.form = "object" /\ l.type = "notification" /\ l.method = SessionMethod
  /\ l.params = "dict" /\ l.ntype = "assistant_text_delta"

RECURSIVE FragmentsIn(_)
FragmentsIn(ls) ==
  IF ls = <<>> THEN <<>>
  ELSE (IF IsTextDelta(Head(ls)) /\ Head(ls).delta.t = "str" THEN Head(ls).delta.s
        ELSE <<>>) \o FragmentsIn(Tail(ls))

\* C5: the text capture_assistant_text returns is the concatenation, in the
\* order read, of the fragments of the text-delta notifications it read.
C5_TextIsConcatenation ==
  (CaptureDone /\ ret.kind = "return") => ret.text = FragmentsIn(seen)

\* two fragments were read, "a" and then "."
C5_Witness ==
  /\ CaptureDone /\ ret.kind = "return" /\ ret.text = <<"a", ".">>
  /\ Len(seen) = 2

\* C6: a line that is not a well-formed message never makes the call raise;
\* the only exception is the TimeoutError of wait_for_response.
C6_MalformedNeverRaises ==
  (fpc = "done" /\ ret.kind = "raise") =>
    (fn = "wait_for_response" /\ ret.exc = "TimeoutError")

\* C7: read_line returns None only when no complete line of the child is
\* left unread.
C7_NoLineLost == rl.none => ~rl.unread

\* C8: read_line is back within timeout_s, whatever the child does.
C8_ReadLineBounded == fpc \in {"select", "readline"} => now - selStart <= timeout

\* C9: when the capture window ends by the deadline or by the exit of the
\* process, capture_assistant_text raises nothing and returns the fragments
\* buffered so far, joined.
C9_WindowEndReturnsBuffer ==
  (CaptureDone /\ ret.why \in {"timeout", "exit"}) =>
    (ret.kind = "return" /\ ret.text = Join(out))

\* the deadline passed with one fragment buffered
C9_Witness ==
  CaptureDone /\ ret.why = "timeout" /\ out = <<(<<"a">>)>> /\ now - start >= timeout

\* =====================================================================
\* stop_proc, step by step, on the handle sp
\* =====================================================================
\* p.wait(timeout=3)
GraceTimeout == 3

\* the handle as stop_proc and its caller can observe it
Handle(p) == [alive |-> alive[p], stdinClosed |-> stdinClosed[p], sent |-> sent[p]]

\* stop_proc(p) is entered
StopEnter(p) ==
  /\ spc = "idle" /\ started[p]
  /\ spc' = "close"
  /\ sp' = p
  /\ calls' = [calls EXCEPT ![p] = @ + 1]
  /\ pre' = Handle(p)
  /\ UNCHANGED <<started, stdinClosed, sent, waitStart, now, alive>>

\* the child of p exits on its own (its work is done, its stdin closed, or
\* it honours SIGTERM)
ProcExit(p) ==
  /\ started[p] /\ alive[p]
  /\ alive' = [alive EXCEPT ![p] = FALSE]
  /\ UNCHANGED <<ioVars, now, stopVars, mainVars>>

AfterCloseUnguarded(failed) == IF failed THEN "kill" ELSE "terminate"

\* lines 98-102: an exception of p.stdin.close() is swallowed
AfterClose(failed) == "terminate"

OnWaitExpiredPass == "idle"

\* lines 105-107: TimeoutExpired of p.wait is caught and p.kill() follows
OnWaitExpired == "kill"

\* lines 98-102: p.stdin.close(); closing a closed stream does nothing, a
\* close that has to flush to a dead child raises
StopClose ==
  /\ spc = "close"
  /\ \E failed \in BOOLEAN :
       /\ failed => ~stdinClosed[sp]
       /\ spc' = AfterClose(failed)
  /\ stdinClosed' = [stdinClosed EXCEPT ![sp] = TRUE]
  /\ UNCHANGED <<ioVars, now, alive, mainVars, started, sent, calls, sp, waitStart, pre>>

\* line 103: p.terminate() sends SIGTERM unless the child has exited
StopTerminate ==
  /\ spc = "terminate"
  /\ sent' = IF alive[sp] THEN [sent EXCEPT ![sp] = @ \cup {"SIGTERM"}] ELSE sent
  /\ spc' = "wait"
  /\ waitStart' = now
  /\ UNCHANGED <<ioVars, now, alive, mainVars, started, stdinClosed, calls, sp, pre>>

\* line 104: p.wait returns once the child has exited
StopWaitReturns ==
  /\ spc = "wait" /\ ~alive[sp]
  /\ spc' = "idle"
  /\ UNCHANGED <<ioVars, now, alive, mainVars, started, stdinClosed, sent, calls, sp,
                 waitStart, pre>>

\* time passes while p.wait waits
StopWaitTick ==
  /\ spc = "wait" /\ alive[sp] /\ now - waitStart < GraceTimeout
  /\ now' = now + 1
  /\ UNCHANGED <<ioVars, alive, mainVars, stopVars>>

\* line 104: p.wait raises TimeoutExpired after the grace period
StopWaitExpired ==
  /\ spc = "wait" /\ alive[sp] /\ now - waitStart >= GraceTimeout
  /\ spc' = OnWaitExpired
  /\ UNCHANGED <<ioVars, now, alive, mainVars, started, stdinClosed, sent, calls, sp,
                 waitStart, pre>>

\* lines 106-109: p.kill() sends SIGKILL unless the child has exited
StopKill ==
  /\ spc = "kill"
  /\ sent' = IF alive[sp] THEN [sent EXCEPT ![sp] = @ \cup {"SIGKILL"}] ELSE sent
  /\ alive' = [alive EXCEPT ![sp] = FALSE]
  /\ spc' = "idle"
  /\ UNCHANGED <<ioVars, now, mainVars, started, stdinClosed, calls, sp, waitStart, pre>>

\* ---------------------------------------------------------------------
\* SpecStop: stop_proc called up to MaxStopCalls times on handles in any
\* state
\* ---------------------------------------------------------------------
InitStop ==
  /\ IoIdle
  /\ MainIdle
  /\ now = 0
  /\ started = [p \in Procs |-> TRUE]
  /\ alive \in [Procs -> BOOLEAN]
  /\ stdinClosed \in [Procs -> BOOLEAN]
  /\ sent = [p \in Procs |-> {}]
  /\ calls = [p \in Procs |-> 0]
  /\ spc = "idle" /\ sp = 1 /\ waitStart = 0
  /\ pre = [alive |-> FALSE, stdinClosed |-> FALSE, sent |-> {}]

\* a caller calls stop_proc(p)
StopCall(p) ==
  /\ calls[p] < MaxStopCalls
  /\ StopEnter(p)
  /\ UNCHANGED <<ioVars, mainVars>>

NextStop ==
  \/ \E p \in Procs : StopCall(p)
  \/ \E p \in Procs : ProcExit(p)
  \/ StopClose
  \/ StopTerminate
  \/ StopWaitReturns
  \/ StopWaitTick
  \/ StopWaitExpired
  \/ StopKill

SpecStop == InitStop /\ [][NextStop]_vars

\* C4: stop_proc never raises; when it has returned the child is not alive;
\* a second call on the same handle leaves the handle as it found it.
C4_StopIdempotent ==
  /\ spc # "raised"
  /\ \A p \in Procs :
       (spc = "idle" /\ calls[p] >= 1) =>
         /\ ~alive[p]
         /\ (calls[p] >= 2 /\ sp = p) => Handle(p) = pre

\* a second call has returned on a handle whose child the first call had to
\* kill
C4_Witness ==
  spc = "idle" /\ sp = 1 /\ calls[1] = 2 /\ sent[1] = {"SIGTERM", "SIGKILL"}

\* =====================================================================
\* The harness calls as functions of what read_line hands them
\* =====================================================================
\* wait_for_response over the results of its read_line calls; the loop ends
\* with the deadline when they are used up
RECURSIVE wait_for_response(_, _)
wait_for_response(reads, target_id) ==
  IF reads = <<>> THEN WaitExpired
  ELSE LET s == ResponseStep(Head(reads), target_id)
       IN  CASE s = "continue" -> wait_for_response(Tail(reads), target_id)
             [] s = "return" -> Returned(Head(reads).line)
             [] OTHER -> Raised(s)

RECURSIVE CaptureLoop(_, _)
CaptureLoop(reads, o) ==
  IF reads = <<>> THEN CaptureExpired(o, "timeout")
  ELSE LET b == CaptureBody(o, Head(reads))
       IN  CASE b.next = "continue" -> CaptureLoop(Tail(reads), b.out)
             [] b.next = "return" -> ReturnedText(Join(b.out))
             [] b.next = "break" -> CaptureExpired(b.out, "exit")
             [] OTHER -> Raised(b.next)

\* capture_assistant_text over the results of its read_line calls
capture_assistant_text(reads) == CaptureLoop(reads, <<>>)

\* =====================================================================
\* main
\* =====================================================================
Sid == PyStr(<<"s">>)

ErrText == PyStr(<<"e">>)

\* what the child may write while main waits for a response
MainLines ==
  { Response("1", ErrNone, ResDict(Sid)),
    Response("1", ErrNone, ResDict(PyNone)),
    Response("1", ErrDict(FALSE, ErrText), ResNone),
    Response("1", ErrNone, ResOther),
    Response("2", ErrNone, ResNone),
    Response("2", ErrDict(FALSE, ErrText), ResNone),
    Response("2", ErrDict(FALSE, PyStr(<<" ">>)), ResNone),
    Response("2", ErrDict(FALSE, PyNone), ResNone),
    Response("2", ErrDict(TRUE, PyNone), ResNone),
    Response("2", ErrOther, ResNone),
    Response("3", ErrNone, ResNone),
    Response("None", ErrDict(FALSE, ErrText), ResNone),
    TextDelta(<<"a">>),
    NonObject }

\* what the child may write while main captures the assistant's text
MainCaptureLines ==
  { TextDelta(<<"a">>), TextDelta(<<".">>), Response("3", ErrNone, ResNone), NonObject }

\* the sequences of up to MaxReads results of read_line over the lines ls
ReadSeqs(ls) ==
  UNION {[1..n -> {Got(l) : l \in ls} \cup {NoLine(FALSE)}] : n \in 0..MaxReads}

\* what read_line hands a call on p: anything while the child lives, None
\* at once when it has exited (line 42)
ReadsFor(p, ls) == IF alive[p] THEN ReadSeqs(ls) ELSE {<<NoLine(TRUE)>>}

Unknown == <<"u", "n", "k", "n", "o", "w", "n">>

ExitTryNoFinally(e) == IF e = "none" THEN "finally" ELSE "aborted"

\* try ... finally: stop_proc(p), lines 131/162-163 and 169/212-213: whether
\* the block ends normally or by the exception e, control goes to the finally
ExitTry(e) == "finally"

\* lines 194-198: load_ok and load_err from the response to load_session
LoadOutcome(rload) ==
  IF ErrTruthy(rload.error)
  THEN IF rload.error.t # "dict"
       THEN [exc |-> "AttributeError", ok |-> FALSE, err |-> <<>>]
       ELSE LET m == Strip(StrOrEmpty(rload.error.message))
            IN  [exc |-> "none", ok |-> FALSE, err |-> IF m = <<>> THEN Unknown ELSE m]
  ELSE [exc |-> "none", ok |-> TRUE, err |-> <<>>]

MainEnded == mpc[2] \in {"exit", "aborted"}

InitMain ==
  /\ IoIdle
  /\ StopIdle
  /\ now = 0
  /\ started = [p \in Procs |-> FALSE]
  /\ alive = [p \in Procs |-> FALSE]
  /\ mpc = <<1, "start">> /\ exc = "none" /\ rc = -1
  /\ resp = NonJson
  /\ sid1 = <<>> /\ a1 = <<>> /\ a2 = <<>>
  /\ load_ok = FALSE /\ load_err = <<>>
  /\ pending = {}

\* the exception e leaves the try block of p
Unwinds(p, e) ==
  /\ mpc' = <<p, ExitTry(e)>>
  /\ exc' = e

\* lines 113-127: the keys are read and the repository fixture is made
MainSetup ==
  /\ mpc = <<1, "start">>
  /\ \E outcome \in {"nokeys", "fixture_error", "ok"} :
       CASE outcome = "nokeys" -> mpc' = <<1, "exit">> /\ rc' = 2 /\ exc' = exc
         [] outcome = "fixture_error" ->
              mpc' = <<1, "aborted">> /\ rc' = rc /\ exc' = "CalledProcessError"
         [] OTHER -> mpc' = <<1, "launch">> /\ rc' = rc /\ exc' = exc
  /\ UNCHANGED <<pending, ioVars, now, alive, stopVars, resp, sid1, a1, a2, load_ok, load_err>>

\* lines 130 and 166-168: start_droid_exec, outside the try block
Launch(p) ==
  /\ mpc = <<p, "launch">>
  /\ \E ok \in BOOLEAN :
       IF ok
       THEN /\ started' = [started EXCEPT ![p] = TRUE]
            /\ alive' = [alive EXCEPT ![p] = TRUE]
            /\ mpc' = <<p, "write_init">>
            /\ exc' = exc
       ELSE /\ mpc' = <<p, "aborted">>
            /\ exc' = "OSError"
            /\ UNCHANGED <<started, alive>>
  /\ load_ok' = FALSE /\ load_err' = <<>>
  /\ pending' = {}
  /\ UNCHANGED <<ioVars, now, stdinClosed, sent, calls, spc, sp, waitStart, pre,
                 rc, resp, sid1, a1, a2>>

\* write_req(p, ...) of the request id, lines 34-37: the flush fails when the
\* child has exited
Write(p, from, id, to) ==
  /\ mpc = <<p, from>>
  /\ IF alive[p]
     THEN /\ mpc' = <<p, to>> /\ exc' = exc
          /\ pending' = pending \cup {id}
     ELSE Unwinds(p, "BrokenPipeError") /\ pending' = pending
  /\ UNCHANGED <<ioVars, now, alive, stopVars, rc, resp, sid1, a1, a2, load_ok, load_err>>

\* r = wait_for_response(p, id, ...)
Wait(p, from, id, to) ==
  /\ mpc = <<p, from>>
  /\ \E reads \in ReadsFor(p, MainLines) :
       LET res == wait_for_response(reads, id)
       IN  IF res.kind = "return"
           THEN /\ mpc' = <<p, to>> /\ exc' = exc /\ resp' = res.msg
                /\ pending' = pending \ {res.msg.id}
           ELSE Unwinds(p, res.exc) /\ resp' = resp /\ pending' = pending
  /\ UNCHANGED <<ioVars, now, alive, stopVars, rc, sid1, a1, a2, load_ok, load_err>>

SidMissingNever(sid) == FALSE

\* line 147: if not sid1
SidMissing(sid) == sid = <<>>

\* lines 146-148: sid1 from r1, RuntimeError when it is empty
SessionId ==
  /\ mpc = <<1, "sid">>
  /\ IF resp.result.t = "str"
     THEN Unwinds(1, "AttributeError") /\ sid1' = sid1
     ELSE LET sid == Strip(StrOrEmpty(resp.result.sessionId))
          IN  /\ sid1' = sid
              /\ IF SidMissing(sid) THEN Unwinds(1, "RuntimeError")
                 ELSE mpc' = <<1, "write_msg">> /\ exc' = exc
  /\ UNCHANGED <<pending, ioVars, now, alive, stopVars, rc, resp, a1, a2, load_ok, load_err>>

\* a = capture_assistant_text(p, ...), the last statement of the try block
Capture(p) ==
  /\ mpc = <<p, "capture">>
  /\ \E reads \in ReadsFor(p, MainCaptureLines) :
       LET res == capture_assistant_text(reads)
       IN  IF res.kind = "return"
           THEN /\ mpc' = <<p, ExitTry("none")>> /\ exc' = exc
                /\ a1' = IF p = 1 THEN res.text ELSE a1
                /\ a2' = IF p = 2 THEN res.text ELSE a2
           ELSE Unwinds(p, res.exc) /\ UNCHANGED <<a1, a2>>
  /\ UNCHANGED <<pending, ioVars, now, alive, stopVars, rc, resp, sid1, load_ok, load_err>>

\* lines 194-198
Load ==
  /\ mpc = <<2, "load">>
  /\ LET o == LoadOutcome(resp)
     IN  IF o.exc # "none"
         THEN Unwinds(2, o.exc) /\ UNCHANGED <<load_ok, load_err>>
         ELSE /\ mpc' = <<2, "write_msg">> /\ exc' = exc
              /\ load_ok' = o.ok
              /\ load_err' = IF o.ok THEN load_err ELSE o.err
  /\ UNCHANGED <<pending, ioVars, now, alive, stopVars, rc, resp, sid1, a1, a2>>

\* finally: stop_proc(p) is entered
Finally(p) ==
  /\ mpc = <<p, "finally">>
  /\ StopEnter(p)
  /\ mpc' = <<p, "stopping">>
  /\ pending' = {}
  /\ UNCHANGED <<ioVars, exc, rc, resp, sid1, a1, a2, load_ok, load_err>>

\* stop_proc has returned: the exception goes on unwinding main, or main
\* goes on behind the block
AfterFinally(p) ==
  /\ mpc = <<p, "stopping">> /\ spc = "idle"
  /\ mpc' = IF exc # "none" THEN <<p, "aborted">>
            ELSE IF p = 1 THEN <<2, "launch">> ELSE <<2, "report">>
  /\ UNCHANGED <<pending, ioVars, now, alive, stopVars, exc, rc, resp, sid1, a1, a2, load_ok,
                 load_err>>

\* lines 215-226
Report ==
  /\ mpc = <<2, "report">>
  /\ mpc' = <<2, "exit">>
  /\ rc' = 0
  /\ UNCHANGED <<pending, ioVars, now, alive, stopVars, exc, resp, sid1, a1, a2, load_ok,
                 load_err>>

\* the child of p exits while main runs
MainProcExit(p) == ~MainEnded /\ ProcExit(p)

NextMain ==
  \/ MainSetup
  \/ \E p \in Procs : Launch(p)
  \/ \E p \in Procs : Write(p, "write_init", "1", "wait_init")
  \/ Wait(1, "wait_init", "1", "sid")
  \/ SessionId
  \/ Write(1, "write_msg", "2", "wait_msg")
  \/ Wait(1, "wait_msg", "2", "capture")
  \/ Wait(2, "wait_init", "1", "write_load")
  \/ Write(2, "write_load", "2", "wait_load")
  \/ Wait(2, "wait_load", "2", "load")
  \/ Load
  \/ Write(2, "write_msg", "3", "wait_msg")
  \/ Wait(2, "wait_msg", "3", "capture")
  \/ \E p \in Procs : Capture(p)
  \/ \E p \in Procs : Finally(p)
  \/ \E p \in Procs : AfterFinally(p)
  \/ Report
  \/ \E p \in Procs : MainProcExit(p)
  \/ StopClose
  \/ StopTerminate
  \/ StopWaitReturns
  \/ StopWaitTick
  \/ StopWaitExpired
  \/ StopKill

SpecMain == InitMain /\ [][NextMain]_vars

\* C3: stop_proc is called at most once on a handle, and once main has left
\* the block that owns a launched handle - normally or by an exception -
\* stop_proc has been called on it exactly once and its child is not alive.
C3_StopExactlyOnce ==
  /\ \A p \in Procs : calls[p] <= 1
  /\ \A p \in Procs :
       (started[p] /\ (MainEnded \/ mpc[1] > p)) => (calls[p] = 1 /\ ~alive[p])

\* main was aborted by the RuntimeError of the missing sessionId, and p1,
\* which ignored SIGTERM, has been stopped
C3_Witness ==
  /\ mpc = <<1, "aborted">> /\ exc = "RuntimeError"
  /\ calls[1] = 1 /\ sent[1] = {"SIGTERM", "SIGKILL"}

\* C10: after the load_session step, a response that carried an error
\* descriptor has given load_ok = false and a non-empty load_err, and one
\* that carried none has given load_ok = true and an empty load_err.
C10_LoadErrorIsData ==
  mpc = <<2, "write_msg">> =>
    IF resp.error.t = "dict" THEN ~load_ok /\ load_err # <<>>
    ELSE load_ok /\ load_err = <<>>

\* C11: when the response main waited for after initialize_session (either
\* process) or add_user_message (either process) carried an error, main does
\* not go on to the step that follows that request.
C11_ErrorsSurface ==
  mpc \in {<<1, "write_msg">>, <<1, "capture">>, <<2, "write_load">>, <<2, "capture">>}
    => ~ErrTruthy(resp.error)

\* a response with id null that carries an error
IsNullIdError(l) ==
  l.form = "object" /\ l.type = "response" /\ l.id = "None" /\ ErrTruthy(l.error)

\* the line the next readline() hands over, and whether this step is that
\* readline()
NextLine == IF buf # <<>> THEN Head(buf) ELSE Head(pipe)

LineRead ==
  \/ buf # <<>> /\ buf' = Tail(buf)
  \/ buf = <<>> /\ pipe # <<>> /\ pipe' = <<>>

\* C12: the step in which wait_for_response reads a response with id null
\* that carries an error ends the call with that message, with no time
\* passing; and a response with id null returned by wait_for_response for
\* another target always carries an error.
C12_NullIdErrorReturnsAtOnce ==
  /\ [][(fn = "wait_for_response" /\ LineRead /\ IsNullIdError(NextLine)) =>
          (fpc' = "done" /\ ret' = Returned(NextLine) /\ now' = now)]_vars
  /\ [](WaitDone /\ ret.kind = "return" /\ ret.msg.id = "None" /\ target # "None"
          => ErrTruthy(ret.msg.error))

\* an id-null error response was returned, within the window, after another
\* line had been read and skipped
C12_Witness ==
  /\ WaitDone /\ ret.kind = "return" /\ IsNullIdError(ret.msg)
  /\ writes = 2 /\ pipe = <<>> /\ buf = <<>> /\ partialAt = "none"
  /\ now - start < timeout

\* C15: at most one request is outstanding on the transport main is using:
\* a request is written only when every request written before it has had
\* its response read, also after a wait_for_response that returned a
\* response with id null.
C15_OneOutstanding == Cardinality(pending) <= 1

\* =====================================================================
\* SpecScript: the message-sending sequence of main, lines 160-161 and
\* 210-211 - wait_for_response, then capture_assistant_text - and
\* capture_assistant_text alone, run line by line over a given sequence of
\* read_line results; the deadline of the running call falls at its end
\* =====================================================================
\* the fragments the child streams
ScriptFragments == {<<"3">>, <<".">>, <<"1">>, <<"4">>, <<".", " ">>, <<"\n">>}

ScriptReads ==
  {Got(TextDelta(f)) : f \in ScriptFragments}
    \cup {Got(Response("2", ErrNone, ResNone)), NoLine(FALSE)}

Scripts == UNION {[1..n -> ScriptReads] : n \in 0..MaxScript}

InitScript ==
  /\ fn \in {"wait_for_response", "capture_assistant_text"}
  /\ target = IF fn = "wait_for_response" THEN "2" ELSE "None"
  /\ script \in Scripts
  /\ pos = 0 /\ mark = 0
  /\ fpc = "loop"
  /\ timeout = 0 /\ now = 0 /\ start = 0 /\ selStart = 0
  /\ pipe = <<>> /\ buf = <<>> /\ partialAt = "none" /\ writes = 0
  /\ alive = [p \in Procs |-> p = 1]
  /\ out = <<>> /\ ret = NoResult /\ seen = <<>> /\ rl = RlNone /\ stalled = FALSE
  /\ started = [p \in Procs |-> p = 1]
  /\ StopIdle
  /\ MainIdle

\* one iteration of the running loop: read_line hands over the next result
ScriptStep ==
  /\ fpc = "loop" /\ pos < Len(script)
  /\ Body(script[pos + 1])
  /\ pos' = pos + 1
  /\ UNCHANGED <<fn, target, timeout, now, start, selStart, pipe, buf, partialAt,
                 writes, alive, rl, stalled, script, mark, stopVars, mainVars>>

\* the loop test fails: lines 54/67 and 73/93
ScriptDeadline ==
  /\ fpc = "loop" /\ pos = Len(script)
  /\ fpc' = "done"
  /\ ret' = IF fn = "wait_for_response" THEN WaitExpired
            ELSE CaptureExpired(out, "timeout")
  /\ UNCHANGED <<fn, target, timeout, now, start, selStart, pipe, buf, partialAt,
                 writes, alive, out, seen, rl, stalled, scriptVars, stopVars,
                 mainVars>>

CaptureFromStart(n) == 0

\* capture_assistant_text reads p.stdout on from where wait_for_response
\* stopped: nothing read before is handed over again
CaptureFrom(n) == n

\* wait_for_response has returned and capture_assistant_text is entered,
\* with out = [] (line 72)
ScriptCapture ==
  /\ fn = "wait_for_response" /\ fpc = "done" /\ ret.kind = "return"
  /\ fn' = "capture_assistant_text"
  /\ target' = "None"
  /\ fpc' = "loop"
  /\ out' = <<>>
  /\ seen' = <<>>
  /\ ret' = NoResult
  /\ mark' = pos
  /\ pos' = CaptureFrom(pos)
  /\ UNCHANGED <<timeout, now, start, selStart, pipe, buf, partialAt, writes,
                 alive, rl, stalled, script, stopVars, mainVars>>

NextScript ==
  \/ ScriptStep
  \/ ScriptDeadline
  \/ ScriptCapture

SpecScript == InitScript /\ [][NextScript]_vars

\* the lines among the results i..j of the script
RECURSIVE LinesOf(_)
LinesOf(reads) ==
  IF reads = <<>> THEN <<>>
  ELSE (IF Head(reads).got THEN <<Head(reads).line>> ELSE <<>>) \o LinesOf(Tail(reads))

ThreePointOneFour ==
  <<Got(TextDelta(<<"3">>)), Got(TextDelta(<<".">>)),
    Got(TextDelta(<<"1">>)), Got(TextDelta(<<"4">>))>>

\* C13: over the fragments "3", ".", "1", "4" delivered as four
\* notifications, capture_assistant_text ends right after the second, returns
\* exactly "3.", and never appends "1" or "4".
C13_ThreePointStopsEarly ==
  (fn = "capture_assistant_text" /\ script = ThreePointOneFour) =>
    /\ pos <= 2
    /\ out \in {<<>>, <<(<<"3">>)>>, <<(<<"3">>), (<<".">>)>>}
    /\ pos = 2 => fpc = "done"
    /\ fpc = "done" => (pos = 2 /\ ret = ReturnedText(<<"3", ".">>))

\* the capture over the four fragments has ended
C13_Witness ==
  /\ fn = "capture_assistant_text" /\ script = ThreePointOneFour /\ fpc = "done"
  /\ ret.text = <<"3", ".">>

\* C14 as claimed: capture_assistant_text completes after an appended
\* fragment exactly when the buffer as it stands ends with '.', '!' or '?'
\* or holds a line break, and goes on consuming otherwise.
C14_CompletesOnRawBuffer ==
  fn = "capture_assistant_text" =>
    /\ ret.why = "complete" => (EndsWithTerminal(Join(out)) \/ HasNewline(Join(out)))
    /\ fpc = "loop" => ~(EndsWithTerminal(Join(out)) \/ HasNewline(Join(out)))

\* C14, amended: capture_assistant_text completes after an appended fragment
\* exactly when the buffer with the whitespace at its ends stripped ends
\* with '.', '!' or '?', or the buffer holds a line break, and goes on
\* consuming otherwise.
C14_CompletesOnStrippedBuffer ==
  fn = "capture_assistant_text" =>
    /\ ret.why = "complete" =>
         (EndsWithTerminal(Strip(Join(out))) \/ HasNewline(Join(out)))
    /\ fpc = "loop" => ~(EndsWithTerminal(Strip(Join(out))) \/ HasNewline(Join(out)))

\* the capture completed on the buffer "3. ", a blank after its punctuation
C14_Witness ==
  /\ fn = "capture_assistant_text" /\ fpc = "done" /\ ret.why = "complete"
  /\ Join(out) = <<"3", ".", " ">>

\* C18: in the sequence wait_for_response, capture_assistant_text the text
\* captured is the concatenation of the fragments read after
\* wait_for_response returned; what wait_for_response read is not in it.
C18_WaitDropsNotifications ==
  (CaptureDone /\ ret.kind = "return") =>
    ret.text = FragmentsIn(LinesOf(SubSeq(script, mark + 1, pos)))

\* wait_for_response read the fragment "3" and then the response; the
\* capture that followed returned "." alone
C18_Witness ==
  /\ CaptureDone /\ mark = 2 /\ script[1] = Got(TextDelta(<<"3">>))
  /\ ret.text = <<".">>

\* C16: a wait_for_response that has ended without returning a message, on a
\* child that wrote nothing or has exited, ended with TimeoutError.
C16_SilenceEndsInTimeout ==
  (WaitDone /\ ret.kind # "return" /\ (writes = 0 \/ ~alive[1])) =>
    ret.exc = "TimeoutError"

\* C17: stop_proc closes stdin, then asks for termination, then waits up to
\* the grace period, and kills only after that wait and only when the child
\* was still alive at its end; a failed close of stdin is followed by the
\* termination request all the same.
C17_StopOrder ==
  /\ [][(spc = "close" /\ spc' # spc) => (spc' = "terminate" /\ stdinClosed'[sp])]_vars
  /\ [][(spc' = "terminate" /\ spc # spc') => spc = "close"]_vars
  /\ [][(spc' = "wait" /\ spc # spc') => spc = "terminate"]_vars
  /\ [][(spc' = "kill" /\ spc # spc') =>
          (spc = "wait" /\ alive[sp] /\ now - waitStart >= GraceTimeout)]_vars
  /\ [](\A p \in Procs : "SIGKILL" \in sent[p] =>
          ("SIGTERM" \in sent[p] /\ stdinClosed[p]))
  /\ [](spc \in {"wait", "kill"} => now - waitStart <= GraceTimeout)

\* stop_proc is about to kill a child that ignored SIGTERM for the whole
\* grace period, after a close of stdin
C17_Witness ==
  /\ spc = "kill" /\ alive[sp] /\ stdinClosed[sp] /\ sent[sp] = {"SIGTERM"}
  /\ now - waitStart = GraceTimeout

\* C19: the second process is launched, and load_session written to it, only
\* after the first turn gave a non-empty session id and stop_proc has run to
\* its end on the first process; when main was aborted in the first turn
\* (error response, no sessionId, no response) no second process exists.
C19_SecondAfterFirst ==
  /\ (started[2] \/ mpc[1] = 2) =>
       /\ sid1 # <<>> /\ sid1 = Strip(sid1)
       /\ calls[1] = 1 /\ ~alive[1] /\ stdinClosed[1]
       /\ sp = 1 => spc = "idle"
  /\ (mpc[1] = 1 /\ mpc[2] = "aborted") => ~started[2]
  /\ (mpc[1] = 1 /\ exc # "none") => ~started[2]

\* load_session has been written to the second process with the session id
\* of the first
C19_Witness ==
  /\ mpc = <<2, "wait_load">> /\ sid1 = <<"s">> /\ pending = {"2"}
  /\ sent[1] = {"SIGTERM", "SIGKILL"}

====
